---- MODULE Spec2Model ----
(***************************************************************************)
(* Model of package buildenv (src/unnamed/part_000): the build environment *)
(* Info, its directory triple, the source location SrcPath/SrcDir and the  *)
(* pipeline Init -> Get -> Unpack -> RunMake -> Install, over an explicit  *)
(* filesystem.  External tools (tar, git, wget, cp, make, the install      *)
(* command) are the environment: each run either fails or succeeds with    *)
(* the effect the tool has on the filesystem.                              *)
(*                                                                         *)
(* A file name is a sequence of tokens (<<"bar", ".git">> is "bar.git"),   *)
(* so that extension detection and the ".git" replacement are computed.    *)
(* A path is a sequence of names; <<>> is the empty string; a path whose   *)
(* first name is Root is absolute, any other is relative to Cwd.           *)
(***************************************************************************)
EXTENDS Naturals, Sequences, FiniteSets

\* ------------------------------------------------------------------ bounds

\* API calls made on one environment in one behaviour.
MaxCalls == 3

\* The calls made on one value when the first stages are run again.
MaxRerunCalls == 4

\* Distinct random suffixes ioutil.TempDir can draw.
MaxSuffix == 1

\* ------------------------------------------------------------------- names

Root == <<"/">>
GitExt == ".git"

N(s) == <<s>>

FooTarGz == <<"foo-1.0", ".tar", ".gz">>
PkgTarGz == <<"pkg", ".tar", ".gz">>
HelloC == <<"hello", ".c">>
BarGit == <<"bar", GitExt>>
PagesGit == <<"user", GitExt, "hub.io", GitExt>>
ExtractedDir == <<"foo-1.0">>
ExtractedFile == <<"README">>
SourceFile == <<"Makefile">>

\* Byte order of the names a directory listing of the model can hold
\* (upper case sorts before lower case).
NameOrder ==
    << SourceFile, ExtractedFile, <<"bar">>, BarGit, <<"bin">>, <<"build">>, <<"foo">>,
       ExtractedDir, FooTarGz, HelloC, <<"install">>, PkgTarGz, <<"src">>,
       <<"user", GitExt, "hub.io">>, <<"user", "hub.io", GitExt>> >>

SuffixNames == <<"1", "2", "3", "4">>

\* ------------------------------------------------------------------- paths

Empty == <<>>

RootDir == <<Root>>
Cwd == <<Root, N("work")>>
TmpDir == <<Root, N("tmp")>>
PkgsDir == <<Root, N("tmp"), N("pkgs")>>
Scratch0 == <<Root, N("scratch")>>
Build0 == <<Root, N("scratch"), N("build")>>
Install0 == <<Root, N("scratch"), N("install")>>
OptBin == <<Root, N("opt"), N("bin")>>

\* filepath.Join: empty elements are ignored, the rest are joined.
Join(a, b) == a \o b

\* filepath.Base / path.Base of a non-empty path.
Base(p) == p[Len(p)]

\* filepath.Dir of a non-empty path.
Dir(p) == SubSeq(p, 1, Len(p) - 1)

IsAbs(p) == p # Empty /\ p[1] = Root

\* The absolute path the operating system resolves p to.
Resolve(p) == IF IsAbs(p) THEN p ELSE Cwd \o p

IsPrefix(a, b) == Len(a) <= Len(b) /\ SubSeq(b, 1, Len(a)) = a

\* -------------------------------------------------------------- filesystem
\* A filesystem is a function from the absolute paths that exist to "dir"
\* or "file".  Every existing path's parent is an existing directory.

Exists(f, p) == p # Empty /\ Resolve(p) \in DOMAIN f

IsDirIn(f, p) == Exists(f, p) /\ f[Resolve(p)] = "dir"

IsFileIn(f, p) == Exists(f, p) /\ f[Resolve(p)] = "file"

Put(f, p, t) ==
    [q \in DOMAIN f \cup {Resolve(p)} |-> IF q = Resolve(p) THEN t ELSE f[q]]

Prefixes(p) == {SubSeq(p, 1, n) : n \in 1..Len(p)}

\* os.MkdirAll succeeds when no segment of the path is a non-directory.
CanMkdirAll(f, p) ==
    /\ p # Empty
    /\ \A q \in Prefixes(Resolve(p)) : q \in DOMAIN f => f[q] = "dir"

MkdirAll(f, p) ==
    [q \in DOMAIN f \cup Prefixes(Resolve(p)) |->
        IF q \in DOMAIN f THEN f[q] ELSE "dir"]

\* os.Mkdir succeeds when the path is new and its parent is a directory.
CanMkdir(f, p) ==
    /\ p # Empty
    /\ ~Exists(f, p)
    /\ Len(Resolve(p)) > 1
    /\ IsDirIn(f, Dir(Resolve(p)))

\* The names ioutil.ReadDir lists for directory d.
Entries(f, d) ==
    {q[Len(q)] : q \in {r \in DOMAIN f :
                          Len(r) = Len(Resolve(d)) + 1 /\ IsPrefix(Resolve(d), r)}}

Rank(n) == CHOOSE i \in 1..Len(NameOrder) : NameOrder[i] = n

\* ioutil.ReadDir returns the entries sorted by file name.
RECURSIVE SortNames(_)
SortNames(S) ==
    IF S = {} THEN <<>>
    ELSE LET m == CHOOSE x \in S : \A y \in S : Rank(x) <= Rank(y)
         IN <<m>> \o SortNames(S \ {m})

\* ------------------------------------------------------------------- state

VARIABLES
    fs,          \* the filesystem
    SrcPath,     \* Info.SrcPath
    SrcDir,      \* Info.SrcDir
    ScratchDir,  \* Info.ScratchDir
    InstallDir,  \* Info.InstallDir
    BuildDir,    \* Info.BuildDir
    Env,         \* Info.Env
    pkg,         \* the app.Info the caller passes to Get, IsInstalled, Install
    op,          \* the last call made
    ret,         \* what it returned: "ok", "err", "true", "false"; "" before any call
    launched,    \* the processes the last call started, in order
    archive,     \* what the package's tarball holds
    input,       \* RunMake's <<sudo, stage, args>> and whether exec.LookPath found
                 \* sudo; Unpack's <<tar found, tar exited with 0>>; <<>> for the
                 \* calls whose only argument is pkg
    calls,       \* the number of calls made so far
    unpacked,    \* the SrcDir left by each Unpack that succeeded right after
                 \* a successful Get, in the order of the calls
    limit        \* the number of calls the caller makes on this value

info == <<SrcPath, SrcDir, ScratchDir, InstallDir, BuildDir, Env>>
vars == <<fs, SrcPath, SrcDir, ScratchDir, InstallDir, BuildDir, Env, pkg,
          archive, op, ret, launched, input, calls, unpacked, limit>>

\* --------------------------------------------------------- package, inputs

FileURL == "file"
HttpURL == "http"
GitURL == "git"

Url(scheme, path) == [scheme |-> scheme, path |-> path]

EmptyUrl == Url("", Empty)

\* file:///tmp/pkgs/<name>
LocalUrl(name) == Url("file", Join(PkgsDir, <<name>>))

\* https://example.com/org/<name>
WebUrl(name) == Url("https", <<N("example.com"), N("org"), name>>)

Pkg(name, url, tarball, cmd) ==
    [Name |-> name, URL |-> url, Tarball |-> tarball, InstallCmd |-> cmd]

MakeInstall == <<"make", " ", "install">>

\* "make  install", the two words two spaces apart.
MakeInstallWide == <<"make", " ", " ", "install">>

Packages ==
    { Pkg(N("foo"), LocalUrl(FooTarGz), Empty, MakeInstall),
      Pkg(N("foo"), LocalUrl(FooTarGz), PkgTarGz, <<>>),
      Pkg(N("foo"), LocalUrl(HelloC), Empty, <<>>),
      Pkg(N("foo"), LocalUrl(N("src")), Empty, MakeInstall),
      Pkg(N("foo"), WebUrl(FooTarGz), Empty, MakeInstall),
      Pkg(N("bar"), WebUrl(BarGit), Empty, <<>>),
      Pkg(N("foo"), WebUrl(BarGit), Empty, <<>>),
      Pkg(N("bar"), WebUrl(PagesGit), Empty, MakeInstall),
      Pkg(N("foo"), Url("ftp", <<N("host"), N("file")>>), Empty, MakeInstallWide),
      Pkg(N("foo"), EmptyUrl, Empty, <<>>) }

PathEntry(dirs) == [key |-> "PATH", val |-> dirs]

HostPath == <<PathEntry(<<Join(Install0, <<N("bin")>>), OptBin>>)>>

\* What a caller constructs Info with:
\* <<ScratchDir, BuildDir, InstallDir, Env>>.
Configs ==
    { <<Scratch0, Build0, Install0, HostPath>>,
      <<Scratch0, Build0, Build0, <<>> >>,
      <<Empty, Empty, Empty, <<>> >> }

\* The host before the first call.
HostFiles ==
    [q \in {RootDir, Cwd, TmpDir, PkgsDir, Dir(OptBin), OptBin} |-> "dir"]

Sources ==
    Put(Put(Put(Put(HostFiles,
        Join(PkgsDir, <<FooTarGz>>), "file"),
        Join(PkgsDir, <<HelloC>>), "file"),
        Join(PkgsDir, <<N("src")>>), "dir"),
        Join(OptBin, <<N("make")>>), "file")

Roots == MkdirAll(MkdirAll(Sources, Build0), Install0)

PackageDirs ==
    MkdirAll(MkdirAll(Roots, Join(Build0, <<N("foo")>>)), Join(Build0, <<N("bar")>>))

PriorRun ==
    Put(Put(PackageDirs,
        Join(Build0, <<N("foo"), FooTarGz>>), "file"),
        Join(Build0, <<N("bar"), N("bar")>>), "dir")

ScratchIsFile == Put(Sources, Scratch0, "file")

InstallIsFile == Put(MkdirAll(Sources, Build0), Install0, "file")

Filesystems == {Sources, Roots, PriorRun, ScratchIsFile, InstallIsFile}

\* What a tarball can hold, as paths relative to where it is extracted: the
\* source tree foo-1.0/ with its Makefile, a README beside it.
ArchiveEntries == {[path |-> <<ExtractedDir>>, type |-> "dir"],
                   [path |-> <<ExtractedDir, SourceFile>>, type |-> "file"],
                   [path |-> <<ExtractedFile>>, type |-> "file"]}

SourceTree == {e \in ArchiveEntries : e.path[1] = ExtractedDir}

\* The tarballs of the model: the source tree alone, a single file alone,
\* both.
Archives == {SourceTree, ArchiveEntries \ SourceTree, ArchiveEntries}

NoCall == "new"

\* A value built by its caller on one of the given hosts for one of the
\* given packages, on which the caller will make n calls.
Fresh(hosts, packages, n) ==
    /\ fs \in hosts
    /\ pkg \in packages
    /\ \E c \in Configs :
          /\ ScratchDir = c[1]
          /\ BuildDir = c[2]
          /\ InstallDir = c[3]
          /\ Env = c[4]
    /\ archive \in IF pkg.URL = WebUrl(FooTarGz) THEN Archives
                   ELSE IF pkg.URL = LocalUrl(FooTarGz) THEN {SourceTree}
                   ELSE {{}}
    /\ SrcPath = Empty
    /\ SrcDir = Empty
    /\ op = NoCall
    /\ ret = ""
    /\ launched = <<>>
    /\ input = <<>>
    /\ calls = 0
    /\ unpacked = <<>>
    /\ limit = n

Constructed == Fresh(Filesystems, Packages, MaxCalls)

\* The packages whose source is an archive: a local file or a download.
ArchivePackages == {p \in Packages : p.URL \in {LocalUrl(FooTarGz), WebUrl(FooTarGz)}}

\* A value built for an archive package on a host whose build root exists,
\* on which the caller runs the pipeline's first stages more than once.
ConstructedForRerun == Fresh({Roots, PriorRun}, ArchivePackages, MaxRerunCalls)

\* ----------------------------------------------------------- bookkeeping

\* The environment's answer to one call: the first step of it that fails.
\* "mkdir": directory creation is refused; "lookup": exec.LookPath does not
\* find the tool; "run": the tool exits with a non-zero status (or a copy
\* hits an I/O error); "mkdir2", "mkdir3": the second, third creation of a
\* call that makes three; "unsaved": wget exits with status 0 and leaves no
\* file in the directory it ran in (its configuration names another output
\* document or directory).
Failures == {"none", "mkdir", "lookup", "run"}

Failures3 == {"none", "mkdir", "mkdir2", "mkdir3"}

Call(name) ==
    /\ calls < limit
    /\ calls' = calls + 1
    /\ op' = name

Proc(bin, args, dir, env) == [bin |-> bin, args |-> args, dir |-> dir, env |-> env]

\* exec.LookPath / a bare command name.
Tool(name) == <<N(name)>>

\* ------------------------------------------------------------------- Init

\* Mutant of Ensure: the error of os.MkdirAll is dropped.
EnsureIgnoringError(f, dir, allowed) ==
    IF Exists(f, dir) THEN [ok |-> TRUE, fs |-> f]
    ELSE IF allowed /\ CanMkdirAll(f, dir) THEN [ok |-> TRUE, fs |-> MkdirAll(f, dir)]
    ELSE [ok |-> TRUE, fs |-> f]

\* One "if !util.PathExists(dir) { os.MkdirAll(dir, 0755) }" of Init; allowed
\* is the operating system's answer (permissions, read-only media).
Ensure(f, dir, allowed) ==
    IF Exists(f, dir) THEN [ok |-> TRUE, fs |-> f]
    ELSE IF allowed /\ CanMkdirAll(f, dir) THEN [ok |-> TRUE, fs |-> MkdirAll(f, dir)]
    ELSE [ok |-> FALSE, fs |-> f]

Init ==
    /\ Call("Init")
    /\ \E fail \in Failures3 :
          LET r1 == Ensure(fs, ScratchDir, fail # "mkdir")
              r2 == Ensure(r1.fs, BuildDir, fail # "mkdir2")
              r3 == Ensure(r2.fs, InstallDir, fail # "mkdir3")
          IN  /\ fs' = IF ~r1.ok THEN r1.fs ELSE IF ~r2.ok THEN r2.fs ELSE r3.fs
              /\ ret' = IF r1.ok /\ r2.ok /\ r3.ok THEN "ok" ELSE "err"
    /\ launched' = <<>>
    /\ input' = <<>>
    /\ archive' = archive
    /\ unpacked' = unpacked
    /\ limit' = limit
    /\ UNCHANGED <<info, pkg>>

\* ------------------------------------------------------- createHostEnvCfg

\* ioutil.TempDir(dir, prefix): a new directory dir/prefix<random>, under
\* os.TempDir() when dir is empty; on failure the returned name is "".
TempParent(dir) == IF dir = Empty THEN TmpDir ELSE dir

\* The names TempDir can settle on: it draws again while the name exists.
TempNames(f, dir, prefix) ==
    LET all == { Join(TempParent(dir), << <<prefix, SuffixNames[i]>> >>) :
                   i \in 1..MaxSuffix }
        free == { n \in all : ~Exists(f, n) }
    IN  IF free = {} THEN all ELSE free

TempDir(f, name, allowed) ==
    IF allowed /\ CanMkdir(f, name)
    THEN [ok |-> TRUE, name |-> name, fs |-> Put(f, name, "dir")]
    ELSE [ok |-> FALSE, name |-> Empty, fs |-> f]

\* The constructor with its steps reordered: ScratchDir replaced first, the
\* build and install directories then made inside the new ScratchDir.
createHostEnvCfgScratchFirst ==
    /\ calls = 0
    /\ Call("createHostEnvCfg")
    /\ \E fail \in Failures3 :
       \E n3 \in TempNames(fs, ScratchDir, "scratch") :
       \E n1 \in TempNames(Put(fs, n3, "dir"), n3, "build") :
       \E n2 \in TempNames(Put(Put(fs, n3, "dir"), n1, "dir"), n3, "install") :
          LET r3 == TempDir(fs, n3, fail # "mkdir3")
              r1 == TempDir(r3.fs, n1, fail # "mkdir")
              r2 == TempDir(r1.fs, n2, fail # "mkdir2")
          IN  /\ ScratchDir' = r3.name
              /\ BuildDir' = IF r3.ok THEN r1.name ELSE BuildDir
              /\ InstallDir' = IF r3.ok /\ r1.ok THEN r2.name ELSE InstallDir
              /\ fs' = IF ~r3.ok THEN r3.fs ELSE IF ~r1.ok THEN r1.fs ELSE r2.fs
              /\ ret' = IF r1.ok /\ r2.ok /\ r3.ok THEN "ok" ELSE "err"
    /\ launched' = <<>>
    /\ input' = <<>>
    /\ archive' = archive
    /\ unpacked' = unpacked
    /\ limit' = limit
    /\ UNCHANGED <<SrcPath, SrcDir, Env, pkg>>

createHostEnvCfg ==
    /\ calls = 0
    /\ Call("createHostEnvCfg")
    /\ \E fail \in Failures3 :
       \E n1 \in TempNames(fs, ScratchDir, "build") :
       \E n2 \in TempNames(Put(fs, n1, "dir"), ScratchDir, "install") :
       \E n3 \in TempNames(Put(Put(fs, n1, "dir"), n2, "dir"), ScratchDir, "scratch") :
          LET r1 == TempDir(fs, n1, fail # "mkdir")
              r2 == TempDir(r1.fs, n2, fail # "mkdir2")
              r3 == TempDir(r2.fs, n3, fail # "mkdir3")
          IN  /\ BuildDir' = r1.name
              /\ InstallDir' = IF r1.ok THEN r2.name ELSE InstallDir
              /\ ScratchDir' = IF r1.ok /\ r2.ok THEN r3.name ELSE ScratchDir
              /\ fs' = IF ~r1.ok THEN r1.fs ELSE IF ~r2.ok THEN r2.fs ELSE r3.fs
              /\ ret' = IF r1.ok /\ r2.ok /\ r3.ok THEN "ok" ELSE "err"
    /\ launched' = <<>>
    /\ input' = <<>>
    /\ archive' = archive
    /\ unpacked' = unpacked
    /\ limit' = limit
    /\ UNCHANGED <<SrcPath, SrcDir, Env, pkg>>

\* -------------------------------------------------------------------- Get

\* util.DetectURLType: the file:// prefix, then a .git suffix, then http(s).
HasGitSuffix(name) == Len(name) > 0 /\ name[Len(name)] = GitExt

DetectURLType(url) ==
    IF url.scheme = "file" THEN FileURL
    ELSE IF url.scheme = "https" /\ HasGitSuffix(Base(url.path)) THEN GitURL
    ELSE IF url.scheme = "https" THEN HttpURL
    ELSE ""

\* p.URL[7:], the local path of a file:// URL.
LocalPath(url) == url.path

\* strings.Replace(name, ".git", "", 1): the first occurrence is removed.
RECURSIVE ReplaceFirstGit(_)
ReplaceFirstGit(name) ==
    IF name = <<>> THEN <<>>
    ELSE IF Head(name) = GitExt THEN Tail(name)
    ELSE <<Head(name)>> \o ReplaceFirstGit(Tail(name))

\* The directory "git clone <url>" creates: the base name without a
\* trailing .git.
CloneDirName(url) ==
    LET b == Base(url.path)
    IN  IF HasGitSuffix(b) THEN SubSeq(b, 1, Len(b) - 1) ELSE b

\* What a strategy leaves behind: its result, the filesystem, the fields it
\* writes and the processes it started.
Outcome(r, f, sp, sd, tb, l) ==
    [ret |-> r, fs |-> f, SrcPath |-> sp, SrcDir |-> sd, Tarball |-> tb,
     launched |-> l]

\* util.CopyFile(src, dst): src must be a regular file and dst creatable.
CanCopyFile(f, src, dst) ==
    /\ IsFileIn(f, src)
    /\ dst # Empty
    /\ Len(Resolve(dst)) > 1
    /\ IsDirIn(f, Dir(Resolve(dst)))
    /\ ~IsDirIn(f, dst)

\* copyTarball; io is whether the copy's reads and writes succeed.
copyTarball(io) ==
    LET tarball == IF pkg.Tarball = Empty THEN Base(pkg.URL.path) ELSE pkg.Tarball
        targetTarballPath == Join(Join(BuildDir, <<pkg.Name>>), <<tarball>>)
    IN  IF pkg.URL = EmptyUrl
        THEN Outcome("err", fs, SrcPath, SrcDir, pkg.Tarball, <<>>)
        ELSE IF ~(io /\ CanCopyFile(fs, LocalPath(pkg.URL), targetTarballPath))
        THEN Outcome("err", fs, SrcPath, SrcDir, tarball, <<>>)
        ELSE Outcome("ok", Put(fs, targetTarballPath, "file"),
                     targetTarballPath, SrcDir, tarball, <<>>)

\* The directory branch of Get: cp -rf <path> <targetDir>.
copyDirectory(mk, found, runs) ==
    LET path == LocalPath(pkg.URL)
        targetDir == Join(BuildDir, <<pkg.Name>>)
        made == Ensure(fs, targetDir, mk)
        cp == Proc(Tool("cp"), <<"-rf">>, Empty, <<>>)
        copy == Join(targetDir, <<Base(path)>>)
        srcPath == Join(targetDir, <<Base(pkg.URL.path)>>)
    IN  IF ~made.ok
        THEN Outcome("err", made.fs, SrcPath, SrcDir, pkg.Tarball, <<>>)
        ELSE IF ~found
        THEN Outcome("err", made.fs, SrcPath, SrcDir, pkg.Tarball, <<>>)
        ELSE IF ~(runs /\ IsDirIn(made.fs, targetDir) /\ ~IsFileIn(made.fs, copy))
        THEN Outcome("err", made.fs, SrcPath, SrcDir, pkg.Tarball, <<cp>>)
        ELSE Outcome("ok", Put(made.fs, copy, "dir"), srcPath, srcPath,
                     pkg.Tarball, <<cp>>)

\* One "if !util.PathExists(dir) { os.Mkdir(dir, defaultDirMode) }".
EnsureOne(f, dir, allowed) ==
    IF Exists(f, dir) THEN [ok |-> TRUE, fs |-> f]
    ELSE IF allowed /\ CanMkdir(f, dir) THEN [ok |-> TRUE, fs |-> Put(f, dir, "dir")]
    ELSE [ok |-> FALSE, fs |-> f]

\* Mutant of download: the "already exists, not downloading" test is gone.
downloadAlways(mk, found, runs, saved) ==
    LET srcDir == Join(BuildDir, <<pkg.Name>>)
        made == EnsureOne(fs, srcDir, mk)
        targetFile == Join(srcDir, <<Base(pkg.URL.path)>>)
        wget == Proc(Tool("wget"), <<"URL">>, srcDir, <<>>)
    IN  IF pkg.URL = EmptyUrl \/ BuildDir = Empty
        THEN Outcome("err", fs, SrcPath, SrcDir, pkg.Tarball, <<>>)
        ELSE IF ~made.ok
        THEN Outcome("err", made.fs, SrcPath, srcDir, pkg.Tarball, <<>>)
        ELSE IF ~found
        THEN Outcome("err", made.fs, SrcPath, srcDir, pkg.Tarball, <<>>)
        ELSE IF ~(runs /\ IsDirIn(made.fs, srcDir))
        THEN Outcome("err", made.fs, SrcPath, srcDir, pkg.Tarball, <<wget>>)
        ELSE Outcome("ok", IF saved THEN Put(made.fs, targetFile, "file") ELSE made.fs,
                     targetFile, srcDir, Base(targetFile), <<wget>>)

\* download assigning SrcDir only while it is empty: a later call keeps the
\* SrcDir an earlier Unpack left.
downloadSettingSrcDirOnce(mk, found, runs, saved) ==
    LET srcDir == Join(BuildDir, <<pkg.Name>>)
        kept == IF SrcDir = Empty THEN srcDir ELSE SrcDir
        made == EnsureOne(fs, srcDir, mk)
        targetFile == Join(srcDir, <<Base(pkg.URL.path)>>)
        wget == Proc(Tool("wget"), <<"URL">>, srcDir, <<>>)
    IN  IF pkg.URL = EmptyUrl \/ BuildDir = Empty
        THEN Outcome("err", fs, SrcPath, SrcDir, pkg.Tarball, <<>>)
        ELSE IF ~made.ok
        THEN Outcome("err", made.fs, SrcPath, kept, pkg.Tarball, <<>>)
        ELSE IF Exists(made.fs, targetFile)
        THEN Outcome("ok", made.fs, targetFile, kept, Base(targetFile), <<>>)
        ELSE IF ~found
        THEN Outcome("err", made.fs, SrcPath, kept, pkg.Tarball, <<>>)
        ELSE IF ~(runs /\ IsDirIn(made.fs, srcDir))
        THEN Outcome("err", made.fs, SrcPath, kept, pkg.Tarball, <<wget>>)
        ELSE Outcome("ok", IF saved THEN Put(made.fs, targetFile, "file") ELSE made.fs,
                     targetFile, kept, Base(targetFile), <<wget>>)

\* download; saved is whether a wget that exits with status 0 has left the
\* file under the URL's base name in the directory it ran in.
download(mk, found, runs, saved) ==
    LET srcDir == Join(BuildDir, <<pkg.Name>>)
        made == EnsureOne(fs, srcDir, mk)
        targetFile == Join(srcDir, <<Base(pkg.URL.path)>>)
        wget == Proc(Tool("wget"), <<"URL">>, srcDir, <<>>)
    IN  IF pkg.URL = EmptyUrl \/ BuildDir = Empty
        THEN Outcome("err", fs, SrcPath, SrcDir, pkg.Tarball, <<>>)
        ELSE IF ~made.ok
        THEN Outcome("err", made.fs, SrcPath, srcDir, pkg.Tarball, <<>>)
        ELSE IF Exists(made.fs, targetFile)
        THEN Outcome("ok", made.fs, targetFile, srcDir, Base(targetFile), <<>>)
        ELSE IF ~found
        THEN Outcome("err", made.fs, SrcPath, srcDir, pkg.Tarball, <<>>)
        ELSE IF ~(runs /\ IsDirIn(made.fs, srcDir))
        THEN Outcome("err", made.fs, SrcPath, srcDir, pkg.Tarball, <<wget>>)
        ELSE Outcome("ok", IF saved THEN Put(made.fs, targetFile, "file") ELSE made.fs,
                     targetFile, srcDir, Base(targetFile), <<wget>>)

\* A directory with no entry.
IsEmptyDir(f, d) == IsDirIn(f, d) /\ Entries(f, d) = {}

\* Mutant of gitCheckout: a pull that fails is followed by a clone.
gitCheckoutRetry(mk, found, runs) ==
    LET repoName == ReplaceFirstGit(Base(pkg.URL.path))
        targetDir == Join(BuildDir, <<pkg.Name>>)
        made == EnsureOne(fs, targetDir, mk)
        checkoutPath == Join(targetDir, <<repoName>>)
        pull == Proc(Tool("git"), <<"pull">>, checkoutPath, <<>>)
        clone == Proc(Tool("git"), <<"clone", "URL">>, targetDir, <<>>)
        cloned == Join(targetDir, <<CloneDirName(pkg.URL)>>)
    IN  IF ~found
        THEN Outcome("err", fs, SrcPath, SrcDir, pkg.Tarball, <<>>)
        ELSE IF ~made.ok
        THEN Outcome("err", made.fs, SrcPath, SrcDir, pkg.Tarball, <<>>)
        ELSE IF Exists(made.fs, checkoutPath)
        THEN IF runs /\ IsDirIn(made.fs, checkoutPath)
             THEN Outcome("ok", made.fs, checkoutPath, checkoutPath, pkg.Tarball,
                          <<pull>>)
             ELSE Outcome("err", made.fs, SrcPath, SrcDir, pkg.Tarball, <<pull, clone>>)
        ELSE IF runs /\ IsDirIn(made.fs, targetDir)
                  /\ (~Exists(made.fs, cloned) \/ IsEmptyDir(made.fs, cloned))
             THEN Outcome("ok", Put(made.fs, cloned, "dir"), checkoutPath,
                          checkoutPath, pkg.Tarball, <<clone>>)
             ELSE Outcome("err", made.fs, SrcPath, SrcDir, pkg.Tarball, <<clone>>)

gitCheckout(mk, found, runs) ==
    LET repoName == ReplaceFirstGit(Base(pkg.URL.path))
        targetDir == Join(BuildDir, <<pkg.Name>>)
        made == EnsureOne(fs, targetDir, mk)
        checkoutPath == Join(targetDir, <<repoName>>)
        pull == Proc(Tool("git"), <<"pull">>, checkoutPath, <<>>)
        clone == Proc(Tool("git"), <<"clone", "URL">>, targetDir, <<>>)
        cloned == Join(targetDir, <<CloneDirName(pkg.URL)>>)
    IN  IF ~found
        THEN Outcome("err", fs, SrcPath, SrcDir, pkg.Tarball, <<>>)
        ELSE IF ~made.ok
        THEN Outcome("err", made.fs, SrcPath, SrcDir, pkg.Tarball, <<>>)
        ELSE IF Exists(made.fs, checkoutPath)
        THEN IF runs /\ IsDirIn(made.fs, checkoutPath)
             THEN Outcome("ok", made.fs, checkoutPath, checkoutPath, pkg.Tarball,
                          <<pull>>)
             ELSE Outcome("err", made.fs, SrcPath, SrcDir, pkg.Tarball, <<pull>>)
        ELSE IF runs /\ IsDirIn(made.fs, targetDir)
                  /\ (~Exists(made.fs, cloned) \/ IsEmptyDir(made.fs, cloned))
             THEN Outcome("ok", Put(made.fs, cloned, "dir"), checkoutPath,
                          checkoutPath, pkg.Tarball, <<clone>>)
             ELSE Outcome("err", made.fs, SrcPath, SrcDir, pkg.Tarball, <<clone>>)

\* Mutant of GetOutcome: the 'urlFormat == ""' test is gone and the switch
\* has no default, so an unclassified URL runs the last strategy.
GetOutcomeUnchecked(mk, found, runs, saved) ==
    LET urlFormat == DetectURLType(pkg.URL)
    IN  IF pkg.URL = EmptyUrl
        THEN Outcome("err", fs, SrcPath, SrcDir, pkg.Tarball, <<>>)
        ELSE IF urlFormat = FileURL
        THEN IF ~IsDirIn(fs, LocalPath(pkg.URL))
             THEN copyTarball(runs)
             ELSE copyDirectory(mk, found, runs)
        ELSE IF urlFormat = HttpURL
        THEN download(mk, found, runs, saved)
        ELSE gitCheckout(mk, found, runs)

\* Get's dispatch on the URL type.
GetOutcome(mk, found, runs, saved) ==
    LET urlFormat == DetectURLType(pkg.URL)
    IN  IF pkg.URL = EmptyUrl
        THEN Outcome("err", fs, SrcPath, SrcDir, pkg.Tarball, <<>>)
        ELSE IF urlFormat = ""
        THEN Outcome("err", fs, SrcPath, SrcDir, pkg.Tarball, <<>>)
        ELSE IF urlFormat = FileURL
        THEN IF ~IsDirIn(fs, LocalPath(pkg.URL))
             THEN copyTarball(runs)
             ELSE copyDirectory(mk, found, runs)
        ELSE IF urlFormat = HttpURL
        THEN download(mk, found, runs, saved)
        ELSE gitCheckout(mk, found, runs)

\* The steps of one Get the environment can fail: those its strategy takes.
GetFailures ==
    LET urlFormat == DetectURLType(pkg.URL)
    IN  IF pkg.URL = EmptyUrl \/ urlFormat = "" THEN {"none"}
        ELSE IF urlFormat = FileURL /\ ~IsDirIn(fs, LocalPath(pkg.URL)) THEN {"none", "run"}
        ELSE IF urlFormat = HttpURL THEN Failures \cup {"unsaved"}
        ELSE Failures

Get ==
    /\ Call("Get")
    /\ \E fail \in GetFailures :
          LET o == GetOutcome(fail # "mkdir", fail # "lookup", fail # "run",
                              fail # "unsaved")
          IN  /\ ret' = o.ret
              /\ fs' = o.fs
              /\ SrcPath' = o.SrcPath
              /\ SrcDir' = o.SrcDir
              /\ pkg' = [pkg EXCEPT !.Tarball = o.Tarball]
              /\ launched' = o.launched
    /\ input' = <<>>
    /\ archive' = archive
    /\ unpacked' = unpacked
    /\ limit' = limit
    /\ UNCHANGED <<ScratchDir, InstallDir, BuildDir, Env>>

\* ----------------------------------------------------------------- Unpack

\* path.Ext of a name: its last token when it starts with a dot.
Ext(name) ==
    IF Len(name) > 1 /\ name[Len(name)] \in {".gz", ".bz2", ".tar", ".c", GitExt}
    THEN name[Len(name)] ELSE ""

\* util.DetectTarballFormat: by extension.
DetectTarballFormat(path) ==
    LET e == Ext(Base(path))
    IN  IF e = ".gz" THEN "gz"
        ELSE IF e = ".bz2" THEN "bz2"
        ELSE IF e = ".tar" THEN "tar"
        ELSE ""

\* util.GetTarArgs.
GetTarArgs(format) ==
    IF format = "gz" THEN "-xzf"
    ELSE IF format = "bz2" THEN "-xjf"
    ELSE IF format = "tar" THEN "-xf"
    ELSE ""

\* tar extracting the entries X in directory d: an entry already there stays.
Extract(f, d, X) ==
    LET new == {Join(Resolve(d), x.path) : x \in X}
        typeOf(q) == (CHOOSE x \in X : Join(Resolve(d), x.path) = q).type
    IN  [q \in DOMAIN f \cup new |-> IF q \in DOMAIN f THEN f[q] ELSE typeOf(q)]

\* The "for _, e := range entries" of Unpack: the first entry, in listing
\* order, that is not the tarball; SrcDir stays when there is none.
RECURSIVE FirstOther(_, _, _)
FirstOther(entries, tarball, dir) ==
    IF entries = <<>> THEN dir
    ELSE IF Head(entries) # tarball THEN Join(dir, <<Head(entries)>>)
    ELSE FirstOther(Tail(entries), tarball, dir)

UnpackOutcome(r, f, sd, l) == [ret |-> r, fs |-> f, SrcDir |-> sd, launched |-> l]

\* The number of entries Unpack expects after the extraction: the tarball
\* and the directory resulting from untaring it.
ExpectedEntries == 2

\* Mutant of Unpacked: the util.IsDir(env.SrcPath) test is gone.
UnpackedNoDirCheck(found, runs, X) ==
    LET format == DetectTarballFormat(SrcPath)
        tarArg == GetTarArgs(format)
        tar == Proc(Tool("tar"), <<tarArg, "SrcPath">>, SrcDir, <<>>)
        extracted == Extract(fs, SrcDir, X)
        entries == SortNames(Entries(extracted, SrcDir))
    IN  IF SrcPath = Empty \/ BuildDir = Empty
        THEN UnpackOutcome("err", fs, SrcDir, <<>>)
        ELSE IF format = ""
        THEN UnpackOutcome("ok", fs, BuildDir, <<>>)
        ELSE IF ~found
        THEN UnpackOutcome("err", fs, SrcDir, <<>>)
        ELSE IF tarArg = ""
        THEN UnpackOutcome("err", fs, SrcDir, <<>>)
        ELSE IF ~(runs /\ IsDirIn(fs, Resolve(SrcDir)) /\ IsFileIn(fs, SrcPath))
        THEN UnpackOutcome("err", fs, SrcDir, <<tar>>)
        ELSE IF SrcDir = Empty
        THEN UnpackOutcome("err", extracted, SrcDir, <<tar>>)
        ELSE IF Len(entries) # ExpectedEntries
        THEN UnpackOutcome("err", extracted, SrcDir, <<tar>>)
        ELSE UnpackOutcome("ok", extracted,
                           FirstOther(entries, Base(SrcPath), SrcDir), <<tar>>)

\* Unpacked with the single-file case treated like the directory case:
\* SrcDir is left as it was.
UnpackedKeepingSrcDir(found, runs, X) ==
    LET format == DetectTarballFormat(SrcPath)
        tarArg == GetTarArgs(format)
        tar == Proc(Tool("tar"), <<tarArg, "SrcPath">>, SrcDir, <<>>)
        extracted == Extract(fs, SrcDir, X)
        entries == SortNames(Entries(extracted, SrcDir))
    IN  IF SrcPath = Empty \/ BuildDir = Empty
        THEN UnpackOutcome("err", fs, SrcDir, <<>>)
        ELSE IF IsDirIn(fs, SrcPath) \/ format = ""
        THEN UnpackOutcome("ok", fs, SrcDir, <<>>)
        ELSE IF ~found
        THEN UnpackOutcome("err", fs, SrcDir, <<>>)
        ELSE IF tarArg = ""
        THEN UnpackOutcome("err", fs, SrcDir, <<>>)
        ELSE IF ~(runs /\ IsDirIn(fs, Resolve(SrcDir)) /\ IsFileIn(fs, SrcPath))
        THEN UnpackOutcome("err", fs, SrcDir, <<tar>>)
        ELSE IF SrcDir = Empty
        THEN UnpackOutcome("err", extracted, SrcDir, <<tar>>)
        ELSE IF Len(entries) # ExpectedEntries
        THEN UnpackOutcome("err", extracted, SrcDir, <<tar>>)
        ELSE UnpackOutcome("ok", extracted,
                           FirstOther(entries, Base(SrcPath), SrcDir), <<tar>>)

Unpacked(found, runs, X) ==
    LET format == DetectTarballFormat(SrcPath)
        tarArg == GetTarArgs(format)
        tar == Proc(Tool("tar"), <<tarArg, "SrcPath">>, SrcDir, <<>>)
        extracted == Extract(fs, SrcDir, X)
        entries == SortNames(Entries(extracted, SrcDir))
    IN  IF SrcPath = Empty \/ BuildDir = Empty
        THEN UnpackOutcome("err", fs, SrcDir, <<>>)
        ELSE IF IsDirIn(fs, SrcPath)
        THEN UnpackOutcome("ok", fs, SrcDir, <<>>)
        ELSE IF format = ""
        THEN UnpackOutcome("ok", fs, BuildDir, <<>>)
        ELSE IF ~found
        THEN UnpackOutcome("err", fs, SrcDir, <<>>)
        ELSE IF tarArg = ""
        THEN UnpackOutcome("err", fs, SrcDir, <<>>)
        ELSE IF ~(runs /\ IsDirIn(fs, Resolve(SrcDir)) /\ IsFileIn(fs, SrcPath))
        THEN UnpackOutcome("err", fs, SrcDir, <<tar>>)
        ELSE IF SrcDir = Empty
        THEN UnpackOutcome("err", extracted, SrcDir, <<tar>>)
        ELSE IF Len(entries) # ExpectedEntries
        THEN UnpackOutcome("err", extracted, SrcDir, <<tar>>)
        ELSE UnpackOutcome("ok", extracted,
                           FirstOther(entries, Base(SrcPath), SrcDir), <<tar>>)

\* Whether Unpack gets as far as looking for tar.
NeedsTar ==
    /\ SrcPath # Empty /\ BuildDir # Empty
    /\ ~IsDirIn(fs, SrcPath)
    /\ DetectTarballFormat(SrcPath) # ""

Unpack ==
    /\ Call("Unpack")
    /\ \E fail \in IF NeedsTar THEN Failures \ {"mkdir"} ELSE {"none"} :
          LET o == Unpacked(fail # "lookup", fail # "run", archive)
          IN  /\ ret' = o.ret
              /\ fs' = o.fs
              /\ SrcDir' = o.SrcDir
              /\ launched' = o.launched
              /\ input' = <<fail # "lookup", fail # "run">>
              /\ unpacked' = IF op = "Get" /\ ret = "ok" /\ o.ret = "ok"
                             THEN Append(unpacked, o.SrcDir) ELSE unpacked
    /\ archive' = archive
    /\ limit' = limit
    /\ UNCHANGED <<SrcPath, ScratchDir, InstallDir, BuildDir, Env, pkg>>

\* ---------------------------------------------------------------- RunMake

Stages == {"", "install"}

ExtraArgs == {<<>>, <<"V=1">>}

MakeOutcome(r, l) == [ret |-> r, launched |-> l]

\* Mutant of Made: the stage is put before the extra arguments.
MadeStageFirst(sudo, stage, makefilePath, args, found, runs) ==
    LET staged == IF stage # "" THEN <<stage>> \o args ELSE args
        parallel == <<"-j">> \o staged
        cmdArgs == IF sudo THEN <<"make">> \o parallel ELSE parallel
        binPath == IF sudo THEN Tool("sudo") ELSE Tool("make")
        cmd == Proc(binPath, cmdArgs, Dir(makefilePath), Env)
    IN  IF SrcDir = Empty
        THEN MakeOutcome("err", <<>>)
        ELSE IF sudo /\ ~found
        THEN MakeOutcome("err", <<>>)
        ELSE MakeOutcome(IF runs THEN "ok" ELSE "err", <<cmd>>)

\* RunMake(sudo, stage, makefilePath, args); found is whether exec.LookPath
\* finds sudo, runs whether the command exits with status 0.
Made(sudo, stage, makefilePath, args, found, runs) ==
    LET staged == IF stage # "" THEN Append(args, stage) ELSE args
        parallel == <<"-j">> \o staged
        cmdArgs == IF sudo THEN <<"make">> \o parallel ELSE parallel
        binPath == IF sudo THEN Tool("sudo") ELSE Tool("make")
        cmd == Proc(binPath, cmdArgs, Dir(makefilePath), Env)
    IN  IF SrcDir = Empty
        THEN MakeOutcome("err", <<>>)
        ELSE IF sudo /\ ~found
        THEN MakeOutcome("err", <<>>)
        ELSE MakeOutcome(IF runs THEN "ok" ELSE "err", <<cmd>>)

RunMake ==
    /\ Call("RunMake")
    /\ \E sudo \in BOOLEAN : \E stage \in Stages : \E args \in ExtraArgs :
       \E fail \in IF SrcDir = Empty THEN {"none"}
                    ELSE IF sudo THEN Failures \ {"mkdir"} ELSE {"none", "run"} :
          LET o == Made(sudo, stage, Join(SrcDir, <<N("Makefile")>>), args,
                        fail # "lookup", fail # "run")
          IN  /\ ret' = o.ret
              /\ launched' = o.launched
              /\ input' = <<sudo, stage, args, fail # "lookup">>
    /\ archive' = archive
    /\ unpacked' = unpacked
    /\ limit' = limit
    /\ UNCHANGED <<fs, info, pkg>>

\* ---------------------------------------------------------------- Install

\* strings.Split(s, " ") of a command given as its pieces, " " being the
\* separator.
RECURSIVE SplitFrom(_, _)
SplitFrom(pieces, current) ==
    IF pieces = <<>> THEN <<current>>
    ELSE IF Head(pieces) = " " THEN <<current>> \o SplitFrom(Tail(pieces), "")
    ELSE SplitFrom(Tail(pieces), Head(pieces))

Split(cmd) == SplitFrom(cmd, "")

\* lookPath's inner loop over the directories of one PATH entry.
RECURSIVE FirstIn(_, _)
FirstIn(dirs, bin) ==
    IF dirs = <<>> THEN Empty
    ELSE IF Exists(fs, Join(dirs[1], <<N(bin)>>)) THEN Join(dirs[1], <<N(bin)>>)
    ELSE FirstIn(Tail(dirs), bin)

\* lookPath: the first hit over the PATH entries of Env, else the bare name.
RECURSIVE lookPathFrom(_, _)
lookPathFrom(entries, bin) ==
    IF entries = <<>> THEN Tool(bin)
    ELSE IF entries[1].key = "PATH" /\ FirstIn(entries[1].val, bin) # Empty
    THEN FirstIn(entries[1].val, bin)
    ELSE lookPathFrom(Tail(entries), bin)

lookPath(bin) == lookPathFrom(Env, bin)

\* Mutant of Installed: the 'p.InstallCmd == ""' test is gone.
InstalledAlways(runs) ==
    LET cmdElts == Split(pkg.InstallCmd)
        cmd == Proc(lookPath(cmdElts[1]), Tail(cmdElts), SrcDir, Env)
    IN  MakeOutcome(IF runs THEN "ok" ELSE "err", <<cmd>>)

Installed(runs) ==
    LET cmdElts == Split(pkg.InstallCmd)
        cmd == Proc(lookPath(cmdElts[1]), Tail(cmdElts), SrcDir, Env)
    IN  IF pkg.InstallCmd = <<>>
        THEN MakeOutcome("ok", <<>>)
        ELSE MakeOutcome(IF runs THEN "ok" ELSE "err", <<cmd>>)

Install ==
    /\ Call("Install")
    /\ \E fail \in IF pkg.InstallCmd = <<>> THEN {"none"} ELSE {"none", "run"} :
          LET o == Installed(fail # "run")
          IN  /\ ret' = o.ret
              /\ launched' = o.launched
    /\ input' = <<>>
    /\ archive' = archive
    /\ unpacked' = unpacked
    /\ limit' = limit
    /\ UNCHANGED <<fs, info, pkg>>

\* ------------------------------------------------------------ IsInstalled

Installable ==
    LET t == DetectURLType(pkg.URL)
        filename == Base(pkg.URL.path)
    IN  IF pkg.URL = EmptyUrl THEN FALSE
        ELSE IF t = FileURL
        THEN \/ Exists(fs, Join(BuildDir, <<filename>>))
             \/ Exists(fs, Join(InstallDir, <<filename>>))
        ELSE IF t = HttpURL
        THEN Exists(fs, Join(BuildDir, <<filename>>))
        ELSE IF t = GitURL
        THEN Exists(fs, Join(BuildDir, <<[i \in 1..Len(SelectSeq(filename, LAMBDA x : x # GitExt)) |->
                                            SelectSeq(filename, LAMBDA x : x # GitExt)[i]]>>))
        ELSE FALSE

\* Mutant of IsInstalled: the path probed is remembered in SrcPath.
IsInstalledRecording ==
    /\ Call("IsInstalled")
    /\ ret' = IF Installable THEN "true" ELSE "false"
    /\ SrcPath' = IF Installable THEN Join(BuildDir, <<Base(pkg.URL.path)>>) ELSE SrcPath
    /\ launched' = <<>>
    /\ input' = <<>>
    /\ archive' = archive
    /\ unpacked' = unpacked
    /\ limit' = limit
    /\ UNCHANGED <<fs, SrcDir, ScratchDir, InstallDir, BuildDir, Env, pkg>>

IsInstalled ==
    /\ Call("IsInstalled")
    /\ ret' = IF Installable THEN "true" ELSE "false"
    /\ launched' = <<>>
    /\ input' = <<>>
    /\ archive' = archive
    /\ unpacked' = unpacked
    /\ limit' = limit
    /\ UNCHANGED <<fs, info, pkg>>

\* ------------------------------------------------------------------- next

Next ==
    \/ Init
    \/ createHostEnvCfg
    \/ Get
    \/ Unpack
    \/ RunMake
    \/ Install
    \/ IsInstalled

Spec == Constructed /\ [][Next]_vars

SpecRerun == ConstructedForRerun /\ [][Next]_vars

\* ----------------------------------------------------------------- claims

\* A step that is a call of the named operation.
Step(name) == calls' = calls + 1 /\ op' = name

Kind == DetectURLType(pkg.URL)

\* A file:// URL whose local path is a directory.
IsDirectoryKind == Kind = FileURL /\ IsDirIn(fs, LocalPath(pkg.URL))

dirs == <<ScratchDir, BuildDir, InstallDir>>

AllExist == Exists(fs, ScratchDir) /\ Exists(fs, BuildDir) /\ Exists(fs, InstallDir)

AllDirectories ==
    IsDirIn(fs, ScratchDir) /\ IsDirIn(fs, BuildDir) /\ IsDirIn(fs, InstallDir)

Distinct == Cardinality({ScratchDir, BuildDir, InstallDir}) = 3

\* BuildDir/<Name>/<base name of the URL>
TargetFile == Join(Join(BuildDir, <<pkg.Name>>), <<Base(pkg.URL.path)>>)

\* BuildDir/<Name>/<base name of the URL without its .git suffix>
Checkout == Join(Join(BuildDir, <<pkg.Name>>), <<CloneDirName(pkg.URL)>>)

LocalArchive == pkg.URL = LocalUrl(FooTarGz)

\* C1 (as stated): whenever Get returns success, SrcPath is non-empty and
\* names an existing path, and for the directory and git kinds SrcDir names
\* an existing path too.
C1_GetSuccessPathsExist ==
    (op = "Get" /\ ret = "ok") =>
        /\ SrcPath # Empty
        /\ Exists(fs, SrcPath)
        /\ (IsDirectoryKind \/ Kind = GitURL) => Exists(fs, SrcDir)

\* C2 (as stated): whenever Unpack returns success, SrcDir is non-empty and
\* names an existing directory.
C2_UnpackSuccessSrcDirIsDirectory ==
    (op = "Unpack" /\ ret = "ok") => (SrcDir # Empty /\ IsDirIn(fs, SrcDir))

\* C3 (as stated): neither RunMake nor Install starts a process while SrcDir
\* is empty.
C3_NoLaunchWithEmptySrcDir ==
    (op \in {"RunMake", "Install"} /\ launched # <<>>) => SrcDir # Empty

\* C4: Get with an empty or unclassifiable URL returns an error, changes no
\* file, starts no process and leaves SrcPath, SrcDir and the package
\* descriptor as they were.
C4_GetRejectsUnclassifiedURL ==
    [][ (Step("Get") /\ (pkg.URL = EmptyUrl \/ pkg.URL.scheme \notin {"file", "https"})) =>
            /\ ret' = "err"
            /\ fs' = fs
            /\ launched' = <<>>
            /\ SrcPath' = SrcPath
            /\ SrcDir' = SrcDir
            /\ pkg' = pkg ]_vars

C4_Witness ==
    op = "Get" /\ ret = "err" /\ pkg.URL.scheme = "ftp" /\ launched = <<>>

\* C5: Get with an HTTP(S) URL whose target file BuildDir/<Name>/<base> is
\* already there in the build directory (BuildDir is set) starts no download,
\* leaves the filesystem as it is and returns success with SrcPath naming
\* that file.
C5_DownloadSkippedWhenTargetExists ==
    [][ (Step("Get") /\ Kind = HttpURL /\ BuildDir # Empty /\ Exists(fs, TargetFile)) =>
            /\ ret' = "ok"
            /\ launched' = <<>>
            /\ fs' = fs
            /\ SrcPath' = TargetFile ]_vars

C5_Witness ==
    /\ op = "Get" /\ ret = "ok" /\ Kind = HttpURL
    /\ launched = <<>>
    /\ SrcPath = TargetFile /\ IsFileIn(fs, TargetFile)

\* C6 (as stated): for a git URL Get starts one git command, pull when the
\* checkout BuildDir/<Name>/<repo> is there before the call and clone
\* otherwise, and on success SrcPath = SrcDir = that checkout, <repo> being
\* the URL's base name without its .git suffix.
C6_GitCheckoutPath ==
    [][ (Step("Get") /\ Kind = GitURL) =>
            /\ Len(launched') <= 1
            /\ launched' # <<>> =>
                 /\ launched'[1].bin = Tool("git")
                 /\ launched'[1].args[1] = IF Exists(fs, Checkout) THEN "pull" ELSE "clone"
            /\ ret' = "ok" =>
                 /\ Len(launched') = 1
                 /\ SrcPath' = Checkout
                 /\ SrcDir' = Checkout ]_vars

\* C7 (as stated): for a local archive on a fresh environment, Get leaves
\* SrcPath = BuildDir/<Name>/<Tarball>, and the Unpack that follows, when tar
\* runs and produces the directory foo-1.0, succeeds with
\* SrcDir = BuildDir/foo-1.0.
C7_LocalArchiveGetThenUnpack ==
    [][ /\ (Step("Get") /\ LocalArchive /\ SrcPath = Empty /\ SrcDir = Empty /\ ret' = "ok") =>
              SrcPath' = Join(Join(BuildDir, <<pkg.Name>>), <<pkg'.Tarball>>)
        /\ ( /\ Step("Unpack") /\ LocalArchive
             /\ op = "Get" /\ ret = "ok" /\ SrcDir = Empty
             /\ launched' # <<>>
             /\ fs' # fs
             /\ archive = SourceTree
             /\ fs' = Extract(fs, SrcDir, archive) ) =>
              (ret' = "ok" /\ SrcDir' = Join(BuildDir, <<ExtractedDir>>)) ]_vars

\* C8 (as stated): when SrcPath names a directory, Unpack returns success,
\* starts no process and leaves every field and the filesystem unchanged.
C8_UnpackDirectoryIsNoOp ==
    [][ (Step("Unpack") /\ IsDirIn(fs, SrcPath)) =>
            (ret' = "ok" /\ launched' = <<>> /\ fs' = fs /\ info' = info /\ pkg' = pkg) ]_vars

\* C8 (amended): the same when BuildDir is non-empty; the second of two
\* calls in a row starts from the state the first one left and leaves it too.
C8_UnpackDirectoryIsNoOpWithBuildDir ==
    [][ (Step("Unpack") /\ IsDirIn(fs, SrcPath) /\ BuildDir # Empty) =>
            (ret' = "ok" /\ launched' = <<>> /\ fs' = fs /\ info' = info /\ pkg' = pkg) ]_vars

C8_Witness ==
    /\ op = "Unpack" /\ ret = "ok" /\ launched = <<>>
    /\ IsDirIn(fs, SrcPath) /\ BuildDir # Empty /\ SrcDir = SrcPath

\* C9 (as stated): after any successful Init the three directories exist, and
\* an Init called right after a successful Init returns success, creates
\* nothing and leaves the three path values as they were.
C9_InitIdempotent ==
    [][ /\ (Step("Init") /\ ret' = "ok") => AllDirectories'
        /\ (Step("Init") /\ op = "Init" /\ ret = "ok") =>
              (ret' = "ok" /\ fs' = fs /\ dirs' = dirs) ]_vars

C11_IsInstalledChangesNothing ==
    [][ Step("IsInstalled") =>
          (fs' = fs /\ info' = info /\ pkg' = pkg /\ launched' = <<>>) ]_vars

C11_Witness ==
    op = "IsInstalled" /\ ret = "true" /\ SrcPath # Empty /\ launched = <<>>

\* C12: Install with an empty install command returns success, starts no
\* process and leaves the environment, the descriptor and the filesystem as
\* they are, in any state (SrcDir empty included).
C12_EmptyInstallIsNoOp ==
    [][ (Step("Install") /\ pkg.InstallCmd = <<>>) =>
          (ret' = "ok" /\ launched' = <<>> /\ fs' = fs /\ info' = info /\ pkg' = pkg) ]_vars

C12_Witness ==
    /\ op = "Install" /\ ret = "ok" /\ pkg.InstallCmd = <<>>
    /\ launched = <<>> /\ SrcDir = Empty

\* The whitespace-separated tokens of a command.
Tokens(cmd) == SelectSeq(cmd, LAMBDA x : x # " ")

\* The directories of the PATH entry of Env, none when Env has no such entry.
PathDirs ==
    LET I == {i \in 1..Len(Env) : Env[i].key = "PATH"}
    IN  IF I = {} THEN <<>> ELSE Env[CHOOSE i \in I : \A j \in I : i <= j].val

\* <dir>/<token> for the first directory of PathDirs holding the token, the
\* bare token when there is none.
Resolved(token) ==
    LET H == {i \in 1..Len(PathDirs) : Exists(fs, Join(PathDirs[i], <<N(token)>>))}
    IN  IF H = {} THEN Tool(token)
        ELSE Join(PathDirs[CHOOSE i \in H : \A j \in H : i <= j], <<N(token)>>)

\* C13 (as stated): Install with a non-empty command starts exactly one
\* process: its binary is the first whitespace-separated token resolved over
\* the PATH entry of Env (the bare token when no directory holds it), its
\* arguments are the remaining tokens, its directory SrcDir, its environment
\* Env.
C13_InstallCommand ==
    [][ (Step("Install") /\ pkg.InstallCmd # <<>>) =>
          launched' = << Proc(Resolved(Tokens(pkg.InstallCmd)[1]),
                              Tail(Tokens(pkg.InstallCmd)), SrcDir, Env) >> ]_vars

\* C14: RunMake with SrcDir set starts one command whose make arguments are
\* -j, the extra arguments in order, then the stage when it is not empty:
\* make itself without sudo, sudo with make put first with sudo; when sudo is
\* asked for and not found it returns an error and starts nothing.
C14_RunMakeCommand ==
    [][ (Step("RunMake") /\ SrcDir # Empty) =>
          LET sudo == input'[1]
              stage == input'[2]
              args == input'[3]
              found == input'[4]
              makeArgs == <<"-j">> \o args \o (IF stage # "" THEN <<stage>> ELSE <<>>)
          IN  IF sudo /\ ~found
              THEN ret' = "err" /\ launched' = <<>>
              ELSE /\ Len(launched') = 1
                   /\ launched'[1].bin = IF sudo THEN Tool("sudo") ELSE Tool("make")
                   /\ launched'[1].args = IF sudo THEN <<"make">> \o makeArgs ELSE makeArgs ]_vars

C14_Witness ==
    /\ op = "RunMake" /\ ret = "ok" /\ SrcDir # Empty
    /\ input[1] /\ input[2] = "install" /\ input[3] = <<"V=1">>
    /\ launched # <<>>
    /\ launched[1].args = <<"make", "-j", "V=1", "install">>

\* The directory the download runs in.
DownloadDir == Join(BuildDir, <<pkg.Name>>)

\* C15 (as stated): a Get with the HTTP(S) strategy that has run the download
\* tool returns success exactly when the download directory holds one new
\* file afterwards; a tool that fails leaves none, so it returns an error
\* then, and also when a tool that exits with status 0 has left no new file.
C15_DownloadChecked ==
    [][ (Step("Get") /\ Kind = HttpURL /\ launched' # <<>>) =>
          (ret' = "ok" <=>
             Cardinality({q \in DOMAIN fs' \ DOMAIN fs :
                            Dir(q) = Resolve(DownloadDir) /\ fs'[q] = "file"}) = 1) ]_vars

\* C16 (as stated): Unpack of a recognized archive returns success only when
\* the extraction directory then holds exactly one entry other than the
\* archive, and SrcDir is that entry; otherwise it returns an error and
\* leaves SrcDir as it was.
C16_UnpackOneNewEntry ==
    [][ (Step("Unpack") /\ NeedsTar) =>
          LET others == Entries(fs', SrcDir) \ {Base(SrcPath)}
          IN  IF ret' = "ok"
              THEN /\ Cardinality(others) = 1
                   /\ \A e \in others : SrcDir' = Join(SrcDir, <<e>>)
              ELSE SrcDir' = SrcDir ]_vars

\* C17: one call of Get, Unpack, RunMake or Install starts at most one
\* process and never the same one again; a call that returns an error has
\* changed nothing after the step that failed: a failed Get leaves at most
\* the package directory it made before, a failed Unpack at most what the one
\* tar run extracted before the listing was refused, RunMake and Install
\* nothing.
C17_SingleAttempt ==
    [][ (Step("Get") \/ Step("Unpack") \/ Step("RunMake") \/ Step("Install")) =>
          /\ Len(launched') <= 1
          /\ (ret' = "err" /\ op' = "Get") =>
                /\ \A q \in DOMAIN fs : fs'[q] = fs[q]
                /\ \A q \in DOMAIN fs' \ DOMAIN fs :
                      fs'[q] = "dir" /\ IsPrefix(q, Resolve(DownloadDir))
                /\ SrcPath' = SrcPath
          /\ (ret' = "err" /\ op' = "Unpack") =>
                /\ SrcDir' = SrcDir
                /\ \/ fs' = fs
                   \/ launched' # <<>> /\ fs' = Extract(fs, SrcDir, archive)
          /\ op' \in {"RunMake", "Install"} => fs' = fs ]_vars

C17_Witness ==
    /\ op = "Get" /\ ret = "err" /\ Kind = HttpURL
    /\ Len(launched) = 1
    /\ IsEmptyDir(fs, DownloadDir)

\* C18 (as stated): IsInstalled answers true exactly when, for a local-file
\* URL, BuildDir or InstallDir holds a file named as the URL's base name; for
\* an HTTP(S) URL, BuildDir holds one; for a git URL, the checkout directory
\* exists; and false for a URL of no kind.
C18_IsInstalledAnswer ==
    op = "IsInstalled" =>
        ret = IF /\ pkg.URL # EmptyUrl
                 /\ \/ /\ Kind = FileURL
                       /\ \/ Exists(fs, Join(BuildDir, <<Base(pkg.URL.path)>>))
                          \/ Exists(fs, Join(InstallDir, <<Base(pkg.URL.path)>>))
                    \/ Kind = HttpURL /\ Exists(fs, Join(BuildDir, <<Base(pkg.URL.path)>>))
                    \/ Kind = GitURL /\ Exists(fs, Checkout)
              THEN "true" ELSE "false"

\* C19 (as stated): after createHostEnvCfg succeeds, BuildDir, InstallDir and
\* the new ScratchDir are three pairwise distinct, freshly created direct
\* children of the original ScratchDir value, and neither BuildDir nor
\* InstallDir lies inside the final ScratchDir.
C19_ChildrenOfOriginalScratch ==
    [][ (Step("createHostEnvCfg") /\ ret' = "ok") =>
          LET made == {BuildDir', InstallDir', ScratchDir'}
          IN  /\ Cardinality(made) = 3
              /\ \A d \in made : /\ ~Exists(fs, d)
                                 /\ IsDirIn(fs', d)
                                 /\ Dir(d) = ScratchDir
              /\ ~IsPrefix(ScratchDir', BuildDir')
              /\ ~IsPrefix(ScratchDir', InstallDir') ]_vars

\* C19 (amended): after createHostEnvCfg succeeds, BuildDir, InstallDir and
\* the new ScratchDir are three pairwise distinct, freshly created direct
\* children of the original ScratchDir value, or of the system temporary
\* directory when that value is empty; neither BuildDir nor InstallDir lies
\* inside the final ScratchDir.
C19_ChildrenOfOriginalScratchOrTmp ==
    [][ (Step("createHostEnvCfg") /\ ret' = "ok") =>
          LET made == {BuildDir', InstallDir', ScratchDir'}
          IN  /\ Cardinality(made) = 3
              /\ \A d \in made : /\ ~Exists(fs, d)
                                 /\ IsDirIn(fs', d)
                                 /\ Dir(d) = TempParent(ScratchDir)
              /\ ~IsPrefix(ScratchDir', BuildDir')
              /\ ~IsPrefix(ScratchDir', InstallDir') ]_vars

\* createHostEnvCfg has succeeded on a configured scratch root.
C19_Witness ==
    /\ op = "createHostEnvCfg" /\ ret = "ok"
    /\ Dir(BuildDir) = Scratch0 /\ Dir(InstallDir) = Scratch0
    /\ Dir(ScratchDir) = Scratch0
    /\ IsDirIn(fs, BuildDir) /\ IsDirIn(fs, InstallDir) /\ IsDirIn(fs, ScratchDir)

\* C20 (as stated): for a local archive file or an HTTP download, RunMake
\* called right after a successful Get, with no Unpack yet, returns an error
\* without launching a process.
C20_RunMakeBeforeUnpackFails ==
    [][ ( /\ calls = 1 /\ op = "Get" /\ ret = "ok"
          /\ (LocalArchive \/ Kind = HttpURL)
          /\ Step("RunMake") )
        => (ret' = "err" /\ launched' = <<>>) ]_vars

\* C21: when SrcPath or BuildDir is empty Unpack returns an error, launches
\* nothing and changes neither a field nor the filesystem; otherwise, when
\* SrcPath names a regular file whose archive format is not detected, Unpack
\* launches no process, leaves every file in place, sets SrcDir to exactly
\* BuildDir and returns success.
C21_UnpackPlainFile ==
    [][ Step("Unpack") =>
          IF SrcPath = Empty \/ BuildDir = Empty
          THEN /\ ret' = "err" /\ launched' = <<>>
               /\ fs' = fs /\ info' = info /\ pkg' = pkg
          ELSE (IsFileIn(fs, SrcPath) /\ DetectTarballFormat(SrcPath) = "") =>
                  /\ ret' = "ok" /\ launched' = <<>>
                  /\ fs' = fs
                  /\ SrcDir' = BuildDir ]_vars

\* Unpack has succeeded on a fetched single source file, moving SrcDir from
\* the empty value to BuildDir.
C21_Witness ==
    /\ op = "Unpack" /\ ret = "ok" /\ launched = <<>>
    /\ IsFileIn(fs, SrcPath) /\ DetectTarballFormat(SrcPath) = ""
    /\ BuildDir # Empty /\ SrcDir = BuildDir

\* C22 (as stated): a Get call that returns an error leaves SrcPath and
\* SrcDir at the values they had before the call.
C22_FailedGetKeepsPaths ==
    [][ (Step("Get") /\ ret' = "err") =>
          (SrcPath' = SrcPath /\ SrcDir' = SrcDir) ]_vars

\* C23 (as stated): right after Get returned success on an environment whose
\* three root directories exist, IsInstalled returns true.
C23_IsInstalledAfterGet ==
    [][ ( /\ op = "Get" /\ ret = "ok"
          /\ AllDirectories
          /\ Step("IsInstalled") )
        => ret' = "true" ]_vars

\* An archive source: a local archive file or an HTTP download.
ArchiveSource == LocalArchive \/ Kind = HttpURL

\* C24: for an archive source, once Get then Unpack have succeeded on an
\* environment, a Get made right after that Unpack succeeds, and an Unpack
\* made after a further successful Get, with tar found and exiting with 0,
\* succeeds and ends with the SrcDir the first Unpack ended with.
C24_RerunEndsWithSameSrcDir ==
    [][ /\ ( /\ ArchiveSource /\ unpacked # <<>>
             /\ op = "Unpack" /\ ret = "ok" /\ unpacked[Len(unpacked)] = SrcDir
             /\ Step("Get") )
           => ret' = "ok"
        /\ ( /\ ArchiveSource /\ unpacked # <<>>
             /\ op = "Get" /\ ret = "ok"
             /\ Step("Unpack") /\ input' = <<TRUE, TRUE>> )
           => (ret' = "ok" /\ SrcDir' = unpacked[1]) ]_vars

\* Get then Unpack have succeeded twice on a downloaded archive, tar having
\* run again, and SrcDir is what the first Unpack left.
C24_Witness ==
    /\ Kind = HttpURL
    /\ op = "Unpack" /\ ret = "ok" /\ Len(launched) = 1
    /\ Len(unpacked) = 2 /\ unpacked[1] = SrcDir /\ unpacked[2] = SrcDir
    /\ IsDirIn(fs, SrcDir) /\ Dir(SrcDir) = Join(BuildDir, <<pkg.Name>>)

====
